---- MODULE Spec2Model ----
(***************************************************************************)
(* WatchtowerPersister (src/src/tower.rs): the per-channel queue of        *)
(* revokeable-output descriptors, the justice-transaction loop of          *)
(* update_persisted_channel, the watchtower state store and justice_tx.    *)
(*                                                                         *)
(* Each call runs in a thread; a thread's steps are cut where the code     *)
(* takes or gives up one of the two mutexes and where it calls out to the  *)
(* channel monitor (build/sign) or to the FilesystemPersister.             *)
(*                                                                         *)
(* A failed assert! or unwrap() is a panic.  It is the fatal fault of the  *)
(* program: the faulting thread stops at pc = "fault" and no further step  *)
(* of any call is taken, so the state in which the fault happened stays    *)
(* visible as the last state.  lock().unwrap() fails only on a mutex that  *)
(* a panicking thread poisoned, that is, only after a fault: it has no     *)
(* failing branch here.                                                    *)
(*                                                                         *)
(* The channel monitor (data) and the FilesystemPersister are the          *)
(* environment: the monitor numbers the descriptors it hands out per       *)
(* channel in increasing order, signs exactly the revoked commitments, and *)
(* does not change while a call on its channel borrows it; the persister   *)
(* answers with any status.                                                *)
(***************************************************************************)
EXTENDS Integers, Sequences, FiniteSets, TLC

\* ------------------------------------------------------------------ bounds
\* Descriptors the channel monitor hands out, over all channels.
MaxCommit == 2

Threads == {1, 2}
Channels == {"f1", "f2"}
Txids == {"T1", "T2"}
\* Output values (satoshis) of revokeable outputs: one below every fee, one above.
Values == {100, 100000}
\* Weights justice_tx.weight() can report for the unsigned transaction.
Weights == {345, 400}
Statuses == {"Completed", "InProgress", "PermanentFailure"}
\* The inputs of the specification of interleaved calls.
ConcValues == {130}
ConcStatuses == {"Completed"}

\* ------------------------------------------------------- program constants
WEIGHT_REVOKED_OUTPUT == 1 + 1 + 73 + 1 + 1 + 1 + 77
FEERATE_FLOOR_SATS_PER_KW == 253

\* ------------------------------------------------------------ Option, maps
None == <<>>
Some(x) == <<x>>
IsSome(o) == o # <<>>
\* A faulty variant of IsNone: the asserts of persist_new_channel never fail.
IsNoneUnchecked(o) == TRUE
IsNone(o) == o = <<>>
Unwrap(o) == o[1]

\* A faulty variant of MapInsert: the other keys are gone.
MapInsertAlone(m, k, v) == [x \in {k} |-> v]
\* HashMap::insert: the new map; an existing value is replaced.
MapInsert(m, k, v) == [x \in (DOMAIN m) \cup {k} |-> IF x = k THEN v ELSE m[x]]
\* HashMap::get / what HashMap::insert returns: the value held before, if any.
MapGet(m, k) == IF k \in DOMAIN m THEN Some(m[k]) ELSE None
EmptyMap == [x \in {} |-> 0]

\* ---------------------------------------------------------- u64 arithmetic
\* A u64 is four 16-bit limbs, least significant first.
LimbBase == 2 ^ 16
Limbs == 0 .. 3
\* n as u64, for 0 <= n < 2^31.
U64(n) == [i \in Limbs |-> IF i = 0 THEN n % LimbBase
                           ELSE IF i = 1 THEN n \div LimbBase ELSE 0]
RECURSIVE Borrow(_, _, _)
\* The borrow into limb i of a - b.
Borrow(a, b, i) ==
  IF i = 0 THEN 0
  ELSE IF a[i - 1] - b[i - 1] - Borrow(a, b, i - 1) < 0 THEN 1 ELSE 0
\* a - b overflows u64 (a < b).
SubOverflows(a, b) == Borrow(a, b, 4) = 1
\* a.wrapping_sub(b): a - b mod 2^64.
WrappingSub(a, b) ==
  [i \in Limbs |-> (a[i] - b[i] - Borrow(a, b, i) + LimbBase) % LimbBase]

\* ------------------------------------------------------------------- state
VARIABLES
  revokeable_output_data, \* HashMap<OutPoint, VecDeque<RevokeableOutputData>>
  watchtower_state,       \* HashMap<OutPoint, HashMap<Txid, Transaction>>
  rod_lock,               \* thread holding revokeable_output_data's mutex, 0: free
  wt_lock,                \* thread holding watchtower_state's mutex, 0: free
  pc,                     \* each thread's position
  op,                     \* the call a thread runs, or ran last
  funding_txo,            \* its funding_txo argument
  update,                 \* its update argument: None or Some(descriptors in it)
  commitment_txid,        \* justice_tx's commitment_txid argument
  justice_tx,             \* the local justice_tx of the loop body
  weight,                 \* justice_tx.weight() of the loop body
  dup,                    \* the local dup of the loop body
  ret_status,             \* ChannelMonitorUpdateStatus a call returned
  ret_tx,                 \* Option<Transaction> justice_tx returned
  storage_calls,          \* statuses the FilesystemPersister gave this call
  revoked,                \* per channel: commitment numbers the monitor can sign
  issued,                 \* per channel: descriptors the monitor handed out
  recorded,               \* per channel: descriptors inserted into the store, in order
  created,                \* per channel: persist_new_channel calls that returned
  enqueued                \* per channel: descriptors appended to the queue, in order

vars == <<revokeable_output_data, watchtower_state, rod_lock, wt_lock, pc, op,
          funding_txo, update, commitment_txid, justice_tx, weight, dup,
          ret_status, ret_tx, storage_calls, revoked, issued, recorded, created,
          enqueued>>

shared == <<revokeable_output_data, watchtower_state, rod_lock, wt_lock>>
args == <<op, funding_txo, update, commitment_txid>>
locals == <<justice_tx, weight, dup>>
rets == <<ret_status, ret_tx, storage_calls>>
env == <<revoked, issued>>
hist == <<recorded, created, enqueued>>

\* ----------------------------------------------------------- the monitor
\* RevokeableOutputData.
Descriptor(n, txid, idx, value) ==
  [commitment_number |-> n, commitment_txid |-> txid, output_idx |-> idx,
   value |-> value]

\* The descriptor sequences an update on channel f can carry: commitment
\* numbers go on from the last one handed out on f.
RECURSIVE DescriptorSeqs(_, _, _)
DescriptorSeqs(first, len, V) ==
  IF len = 0 THEN {<<>>}
  ELSE {<<Descriptor(first, x, 0, v)>> \o rest :
          x \in Txids, v \in V, rest \in DescriptorSeqs(first + 1, len - 1, V)}

RECURSIVE Sum(_, _)
Sum(g, S) == IF S = {} THEN 0 ELSE LET x == CHOOSE y \in S : TRUE
                                  IN g[x] + Sum(g, S \ {x})

Updates(f, V) ==
  {None} \cup
  {Some(ds) : ds \in UNION {DescriptorSeqs(issued[f] + 1, k, V) :
                              k \in 0 .. (MaxCommit - Sum(issued, Channels))}}

\* data.revokeable_output_data_from_update(update)
RevokeableOutputDataFromUpdate(u) == Unwrap(u)

\* data.build_justice_tx(commitment_txid, output_idx, value): one input
\* spending the revokeable output, one output carrying its value, no witness.
BuildJusticeTx(txid, idx, value) ==
  [input |-> <<txid, idx>>, output0 |-> U64(value), witness |-> 0]

\* data.sign_justice_tx(...) is Ok exactly for a revoked commitment.
CanSign(f, n) == n \in revoked[f]
SignJusticeTx(tx, n) == [tx EXCEPT !.witness = n]

\* ----------------------------------------------------------- fee, queue
\* Lines 116-118.
Fee(w) == (FEERATE_FLOOR_SATS_PER_KW * (w + WEIGHT_REVOKED_OUTPUT)) \div 1000

\* Line 119, without overflow checks.
DeductFee(tx, fee) == [tx EXCEPT !.output0 = WrappingSub(tx.output0, U64(fee))]

\* A faulty variant of Extend: the new descriptors go to the front.
ExtendAtFront(q, ds) == ds \o q
\* channel_state.extend(...)
Extend(q, ds) == q \o ds
\* channel_state.front()
Front(q) == q[1]
\* A faulty variant of PopFront: the descriptor behind the front goes with it.
PopFrontTwo(q) == IF Len(q) > 1 THEN Tail(Tail(q)) ELSE Tail(q)
\* channel_state.pop_front()
PopFront(q) == Tail(q)
\* A faulty variant of QueueAfterErr: the entry that could not be signed is dropped.
QueueAfterErrDropped(q) == Tail(q)
\* Err(_) => break: the queue as the loop leaves it.
QueueAfterErr(q) == q

\* A faulty variant of LockGuard: the queues are used without the mutex.
NoGuard(t) == 0
\* The holder of revokeable_output_data's mutex once thread t has the guard
\* channels_revokeable_output_data of line 100.
LockGuard(t) == t

\* A faulty variant of DropGuard: the guard outlives the block.
KeepGuard(t) == t
\* The holder of revokeable_output_data's mutex once the guard
\* channels_revokeable_output_data goes out of scope (line 142): nobody.
DropGuard(t) == 0

NoFault == \A t \in Threads : pc[t] # "fault"

Fault(t) == pc' = [pc EXCEPT ![t] = "fault"]
Goto(t, l) == pc' = [pc EXCEPT ![t] = l]

\* ------------------------------------------------------------------- Init
Init ==
  /\ revokeable_output_data = EmptyMap
  /\ watchtower_state = EmptyMap
  /\ rod_lock = 0
  /\ wt_lock = 0
  /\ pc = [t \in Threads |-> "idle"]
  /\ op = [t \in Threads |-> "none"]
  /\ funding_txo = [t \in Threads |-> "f1"]
  /\ update = [t \in Threads |-> None]
  /\ commitment_txid = [t \in Threads |-> "T1"]
  /\ justice_tx = [t \in Threads |-> None]
  /\ weight = [t \in Threads |-> 0]
  /\ dup = [t \in Threads |-> None]
  /\ ret_status = [t \in Threads |-> "none"]
  /\ ret_tx = [t \in Threads |-> None]
  /\ storage_calls = [t \in Threads |-> <<>>]
  /\ revoked = [f \in Channels |-> {}]
  /\ issued = [f \in Channels |-> 0]
  /\ recorded = [f \in Channels |-> <<>>]
  /\ created = [f \in Channels |-> 0]
  /\ enqueued = [f \in Channels |-> <<>>]

\* A call starts: its arguments are bound.
Begin(t, o, f, u, x, l) ==
  /\ NoFault
  /\ pc[t] = "idle"
  /\ Goto(t, l)
  /\ op' = [op EXCEPT ![t] = o]
  /\ funding_txo' = [funding_txo EXCEPT ![t] = f]
  /\ update' = [update EXCEPT ![t] = u]
  /\ commitment_txid' = [commitment_txid EXCEPT ![t] = x]
  /\ UNCHANGED <<locals, rets>>

\* A call has returned (pc = "done": its arguments and results are there to
\* see); the caller takes the result and the frame goes away.
Retire(t) ==
  /\ NoFault
  /\ pc[t] = "done"
  /\ Goto(t, "idle")
  /\ op' = [op EXCEPT ![t] = "none"]
  /\ funding_txo' = [funding_txo EXCEPT ![t] = "f1"]
  /\ update' = [update EXCEPT ![t] = None]
  /\ commitment_txid' = [commitment_txid EXCEPT ![t] = "T1"]
  /\ justice_tx' = [justice_tx EXCEPT ![t] = None]
  /\ weight' = [weight EXCEPT ![t] = 0]
  /\ dup' = [dup EXCEPT ![t] = None]
  /\ ret_status' = [ret_status EXCEPT ![t] = "none"]
  /\ ret_tx' = [ret_tx EXCEPT ![t] = None]
  /\ storage_calls' = [storage_calls EXCEPT ![t] = <<>>]
  /\ UNCHANGED <<shared, env, hist>>

\* ------------------------------------------------------ persist_new_channel
CallPersistNewChannel(t) ==
  \E f \in Channels :
    /\ Begin(t, "persist_new_channel", f, None, "T1", "pnc_queue")
    /\ UNCHANGED <<shared, env, hist>>

\* Lines 76-81: insert under the mutex (the guard is a temporary of the
\* assert's condition), then assert that nothing was there.
PncInsertQueue(t) ==
  /\ NoFault
  /\ pc[t] = "pnc_queue"
  /\ rod_lock = 0
  /\ revokeable_output_data' =
       MapInsert(revokeable_output_data, funding_txo[t], <<>>)
  /\ IF IsNone(MapGet(revokeable_output_data, funding_txo[t]))
     THEN Goto(t, "pnc_state")
     ELSE Fault(t)
  /\ UNCHANGED <<watchtower_state, rod_lock, wt_lock, args, locals, rets, env,
                 hist>>

\* Lines 82-87.
PncInsertState(t) ==
  /\ NoFault
  /\ pc[t] = "pnc_state"
  /\ wt_lock = 0
  /\ watchtower_state' = MapInsert(watchtower_state, funding_txo[t], EmptyMap)
  /\ IF IsNone(MapGet(watchtower_state, funding_txo[t]))
     THEN Goto(t, "pnc_persist")
     ELSE Fault(t)
  /\ UNCHANGED <<revokeable_output_data, rod_lock, wt_lock, args, locals, rets,
                 env, hist>>

\* A faulty variant of ReturnedStatus: a queue head left unsigned is reported as a
\* failure.
ReturnedStatusOfHead(t, s) ==
  LET f == funding_txo[t] IN
  IF /\ op[t] = "update_persisted_channel"
     /\ f \in DOMAIN revokeable_output_data
     /\ revokeable_output_data[f] # <<>>
  THEN "PermanentFailure" ELSE s
\* The status a call hands back, given the one the FilesystemPersister gave.
ReturnedStatus(t, s) == s

\* Lines 88-89: self.persister.persist_new_channel(...)
PncPersist(t, S) ==
  /\ NoFault
  /\ pc[t] = "pnc_persist"
  /\ \E s \in S :
       /\ storage_calls' = [storage_calls EXCEPT ![t] = Append(@, s)]
       /\ ret_status' = [ret_status EXCEPT ![t] = ReturnedStatus(t, s)]
  /\ Goto(t, "done")
  /\ created' = [created EXCEPT ![funding_txo[t]] = @ + 1]
  /\ UNCHANGED <<shared, args, locals, ret_tx, env, recorded, enqueued>>

\* -------------------------------------------------- update_persisted_channel
\* Line 97: with no update the call goes straight to line 143.
CallUpdatePersistedChannel(t, V) ==
  \E f \in Channels : \E u \in Updates(f, V) :
    /\ Begin(t, "update_persisted_channel", f, u, "T1",
             IF IsSome(u) THEN "upc_lock" ELSE "upc_persist")
    /\ issued' = [issued EXCEPT ![f] = @ + (IF IsSome(u) THEN Len(Unwrap(u)) ELSE 0)]
    /\ UNCHANGED <<shared, revoked, hist>>

\* Lines 99-102: lock revokeable_output_data, find the channel's queue
\* (unwrap), append the update's descriptors.  The guard is held until the
\* end of the if-let block.
UpcLock(t) ==
  /\ NoFault
  /\ pc[t] = "upc_lock"
  /\ rod_lock = 0
  /\ IF MapGet(revokeable_output_data, funding_txo[t]) = None
     THEN /\ Fault(t)
          /\ UNCHANGED <<revokeable_output_data, rod_lock, enqueued>>
     ELSE /\ revokeable_output_data' =
               [revokeable_output_data EXCEPT ![funding_txo[t]] =
                  Extend(@, RevokeableOutputDataFromUpdate(update[t]))]
          /\ enqueued' =
               [enqueued EXCEPT ![funding_txo[t]] =
                  @ \o RevokeableOutputDataFromUpdate(update[t])]
          /\ rod_lock' = LockGuard(t)
          /\ Goto(t, "upc_front")
  /\ UNCHANGED <<watchtower_state, wt_lock, args, locals, rets, env, recorded,
                 created>>

\* Lines 105-119: the loop head.  An empty queue ends the loop (and the
\* block: the guard is dropped).  Otherwise build the justice transaction of
\* the front descriptor and take the fee off output 0.  When the
\* subtraction overflows, a build with overflow checks panics and one
\* without wraps.
UpcFront(t) ==
  /\ NoFault
  /\ pc[t] = "upc_front"
  /\ LET q == revokeable_output_data[funding_txo[t]] IN
     IF q = <<>>
     THEN /\ rod_lock' = DropGuard(t)
          /\ Goto(t, "upc_persist")
          /\ UNCHANGED locals
     ELSE \E w \in Weights :
            LET d == Front(q)
                tx == BuildJusticeTx(d.commitment_txid, d.output_idx, d.value)
            IN /\ \/ /\ SubOverflows(tx.output0, U64(Fee(w)))
                     /\ Fault(t)
                     /\ justice_tx' = [justice_tx EXCEPT ![t] = Some(tx)]
                  \/ /\ Goto(t, "upc_sign")
                     /\ justice_tx' = [justice_tx EXCEPT ![t] =
                                         Some(DeductFee(tx, Fee(w)))]
               /\ weight' = [weight EXCEPT ![t] = w]
               /\ UNCHANGED <<rod_lock, dup>>
  /\ UNCHANGED <<revokeable_output_data, watchtower_state, wt_lock, args, rets,
                 env, hist>>

\* Lines 122-124 and 139: sign; Err(_) breaks out of the loop.
UpcSign(t) ==
  /\ NoFault
  /\ pc[t] = "upc_sign"
  /\ LET d == Front(revokeable_output_data[funding_txo[t]]) IN
     IF CanSign(funding_txo[t], d.commitment_number)
     THEN /\ justice_tx' = [justice_tx EXCEPT ![t] =
                              Some(SignJusticeTx(Unwrap(@), d.commitment_number))]
          /\ Goto(t, "upc_insert")
          /\ UNCHANGED <<revokeable_output_data, rod_lock, weight>>
     ELSE /\ rod_lock' = DropGuard(t)
          /\ Goto(t, "upc_persist")
          /\ justice_tx' = [justice_tx EXCEPT ![t] = None]
          /\ weight' = [weight EXCEPT ![t] = 0]
          /\ revokeable_output_data' =
               [revokeable_output_data EXCEPT ![funding_txo[t]] = QueueAfterErr(@)]
  /\ UNCHANGED <<watchtower_state, wt_lock, args, dup, rets, env, hist>>

\* Lines 129-135: lock watchtower_state, find the channel's map (unwrap),
\* insert; dup is what the key held before.
UpcInsert(t) ==
  /\ NoFault
  /\ pc[t] = "upc_insert"
  /\ wt_lock = 0
  /\ LET f == funding_txo[t]
         d == Front(revokeable_output_data[f])
     IN IF MapGet(watchtower_state, f) = None
        THEN /\ Fault(t)
             /\ UNCHANGED <<watchtower_state, dup, recorded>>
        ELSE /\ watchtower_state' =
                  [watchtower_state EXCEPT ![f] =
                     MapInsert(@, d.commitment_txid, Unwrap(justice_tx[t]))]
             /\ dup' = [dup EXCEPT ![t] = MapGet(watchtower_state[f], d.commitment_txid)]
             /\ recorded' = [recorded EXCEPT ![f] = Append(@, d)]
             /\ Goto(t, "upc_assert")
  /\ UNCHANGED <<revokeable_output_data, rod_lock, wt_lock, args, justice_tx,
                 weight, rets, env, created, enqueued>>

\* A faulty variant of DupIsNone: the assert on dup is gone.
DupUnchecked(o) == TRUE
\* assert!(dup.is_none())
DupIsNone(o) == o = None

\* Lines 136-137: assert, then pop the front and go round the loop (the
\* locals of the loop body end with it).
UpcAssert(t) ==
  /\ NoFault
  /\ pc[t] = "upc_assert"
  /\ IF DupIsNone(dup[t])
     THEN /\ revokeable_output_data' =
               [revokeable_output_data EXCEPT ![funding_txo[t]] = PopFront(@)]
          /\ justice_tx' = [justice_tx EXCEPT ![t] = None]
          /\ weight' = [weight EXCEPT ![t] = 0]
          /\ dup' = [dup EXCEPT ![t] = None]
          /\ Goto(t, "upc_front")
     ELSE /\ Fault(t)
          /\ UNCHANGED <<revokeable_output_data, locals>>
  /\ UNCHANGED <<watchtower_state, rod_lock, wt_lock, args, rets, env, hist>>

\* Line 143: self.persister.update_persisted_channel(...)
UpcPersist(t, S) ==
  /\ NoFault
  /\ pc[t] = "upc_persist"
  /\ \E s \in S :
       /\ storage_calls' = [storage_calls EXCEPT ![t] = Append(@, s)]
       /\ ret_status' = [ret_status EXCEPT ![t] = ReturnedStatus(t, s)]
  /\ Goto(t, "done")
  /\ UNCHANGED <<shared, args, locals, ret_tx, env, hist>>

\* ----------------------------------------------------------------- justice_tx
CallJusticeTx(t) ==
  \E f \in Channels, x \in Txids :
    /\ Begin(t, "justice_tx", f, None, x, "jtx")
    /\ UNCHANGED <<shared, env, hist>>

\* A faulty variant of Lookup: the commitment_txid is not looked at.
LookupAny(m, x) == IF DOMAIN m = {} THEN None ELSE Some(m[CHOOSE y \in DOMAIN m : TRUE])
\* .get(commitment_txid).cloned() on the channel's map.
Lookup(m, x) == MapGet(m, x)

\* Lines 45-51: lock, get(&funding_txo).unwrap(), get(commitment_txid).cloned()
JusticeTx(t) ==
  /\ NoFault
  /\ pc[t] = "jtx"
  /\ wt_lock = 0
  /\ IF MapGet(watchtower_state, funding_txo[t]) = None
     THEN /\ Fault(t)
          /\ UNCHANGED ret_tx
     ELSE /\ ret_tx' = [ret_tx EXCEPT ![t] =
                          Lookup(watchtower_state[funding_txo[t]], commitment_txid[t])]
          /\ Goto(t, "done")
  /\ UNCHANGED <<shared, args, locals, ret_status, storage_calls, env, hist>>

\* ------------------------------------------------------------ the monitor
\* The counterparty revokes a commitment that was handed out: from now on
\* the monitor can sign its justice transaction.  The monitor is borrowed
\* by a running update_persisted_channel call, so it changes between calls.
Revoke ==
  \E f \in Channels : \E n \in 1 .. issued[f] :
    /\ NoFault
    /\ n \notin revoked[f]
    /\ \A t \in Threads :
         ~(op[t] = "update_persisted_channel" /\ funding_txo[t] = f
           /\ pc[t] \notin {"idle", "done"})
    /\ revoked' = [revoked EXCEPT ![f] = @ \cup {n}]
    /\ UNCHANGED <<shared, pc, args, locals, rets, issued, hist>>

\* ------------------------------------------------------------ specifications
\* The steps of thread t, with the output values V the monitor's descriptors
\* carry and the statuses S the FilesystemPersister gives.
Step(t, V, S) ==
  \/ CallPersistNewChannel(t)
  \/ PncInsertQueue(t)
  \/ PncInsertState(t)
  \/ PncPersist(t, S)
  \/ CallUpdatePersistedChannel(t, V)
  \/ UpcLock(t)
  \/ UpcFront(t)
  \/ UpcSign(t)
  \/ UpcInsert(t)
  \/ UpcAssert(t)
  \/ UpcPersist(t, S)
  \/ CallJusticeTx(t)
  \/ JusticeTx(t)
  \/ Retire(t)

\* One caller: the calls come one after the other.
Next == Step(1, Values, Statuses) \/ Revoke
Spec == Init /\ [][Next]_vars

\* The calls of two threads interleave; one output value, and storage that
\* completes.
NextConc == (\E t \in Threads : Step(t, ConcValues, ConcStatuses)) \/ Revoke
SpecConc == Init /\ [][NextConc]_vars

\* The steps of a call of thread t that is under way.
Running(t) ==
  \/ PncInsertQueue(t)
  \/ PncInsertState(t)
  \/ PncPersist(t, ConcStatuses)
  \/ UpcLock(t)
  \/ UpcFront(t)
  \/ UpcSign(t)
  \/ UpcInsert(t)
  \/ UpcAssert(t)
  \/ UpcPersist(t, ConcStatuses)
  \/ JusticeTx(t)

\* The calls of two threads, all for the same funding_txo, interleave.
SameChannels == {"f1"}
NextSame == NextConc /\ \A t \in Threads : funding_txo'[t] \in SameChannels
SpecSame == Init /\ [][NextSame]_vars

\* The same calls, where the monitor and the FilesystemPersister return and
\* a thread that waits for a mutex gets it in the end (both mutexes are
\* shared by all channels: one channel has all the waiting).
SpecFair == SpecSame /\ \A t \in Threads : SF_vars(Running(t))

\* --------------------------------------------------------------- properties
\* t is inside the body of the loop, a descriptor in hand.
InLoopBody(t) == pc[t] \in {"upc_sign", "upc_insert", "upc_assert"}
IsUpdateCall(t) == op[t] = "update_persisted_channel"
Queue(f) == revokeable_output_data[f]
HasQueue(f) == f \in DOMAIN revokeable_output_data
HasState(f) == f \in DOMAIN watchtower_state
\* The front descriptor of f's queue is there and its commitment is not revoked.
Stalled(f) ==
  /\ HasQueue(f)
  /\ Queue(f) # <<>>
  /\ Front(Queue(f)).commitment_number \notin revoked[f]
\* How often commitment_txid x was inserted into f's map.
RecordedCount(f, x) ==
  Cardinality({i \in 1 .. Len(recorded[f]) : recorded[f][i].commitment_txid = x})

\* C1: on every channel the justice transactions are recorded in strictly
\* increasing commitment-number order, and no descriptor is recorded while
\* one enqueued before it (one with a smaller commitment number) is still
\* in the channel's queue.
C1_RecordedInOrder ==
  \A f \in Channels :
    /\ \A i, j \in 1 .. Len(recorded[f]) :
         i < j => recorded[f][i].commitment_number < recorded[f][j].commitment_number
    /\ HasQueue(f) =>
         \A i \in 1 .. Len(recorded[f]) : \A j \in 1 .. Len(Queue(f)) :
           recorded[f][i].commitment_number <= Queue(f)[j].commitment_number

\* Two descriptors of one channel, with different commitment txids, were
\* recorded and the queue is drained.
C1_Witness ==
  \E f \in Channels :
    /\ Len(recorded[f]) = 2
    /\ HasQueue(f) /\ Queue(f) = <<>>
    /\ recorded[f][1].commitment_txid # recorded[f][2].commitment_txid

\* C2: a pair (funding_txo, commitment_txid) is recorded at most once by
\* calls that go on normally: a second insertion for the pair exists only in
\* a call that stands at the assert on dup, or that has ended in the fault
\* there, with the duplicate still at the front of the queue.
C2_AtMostOnce ==
  \A f \in Channels : \A x \in Txids :
    \/ RecordedCount(f, x) <= 1
    \/ /\ RecordedCount(f, x) = 2
       /\ \E t \in Threads :
            /\ IsUpdateCall(t) /\ funding_txo[t] = f
            /\ pc[t] \in {"upc_assert", "fault"}
            /\ IsSome(dup[t])
            /\ Front(Queue(f)).commitment_txid = x

\* A call signed a second descriptor for a pair already in the store and
\* ended in the fault.
C2_Witness ==
  \E t \in Threads :
    /\ IsUpdateCall(t) /\ pc[t] = "fault" /\ IsSome(dup[t])
    /\ RecordedCount(funding_txo[t], Front(Queue(funding_txo[t])).commitment_txid) = 2

\* C3: while the front descriptor of a channel's queue cannot be signed, no
\* step of an update_persisted_channel call on that channel, other than the
\* one that appends new descriptors, changes the channel's queue or its
\* map of justice transactions.
C3_StalledStep ==
  \A t \in Threads :
    LET f == funding_txo[t] IN
    (/\ IsUpdateCall(t)
     /\ pc'[t] # pc[t]
     /\ Stalled(f)
     /\ revoked' = revoked
     /\ (pc[t] = "upc_lock" => RevokeableOutputDataFromUpdate(update[t]) = <<>>))
    => /\ MapGet(revokeable_output_data', f) = MapGet(revokeable_output_data, f)
       /\ MapGet(watchtower_state', f) = MapGet(watchtower_state, f)
C3_IdempotentHalt == [][C3_StalledStep]_vars

\* A call that brought no descriptors ran its loop on a stalled head and
\* returned, the head still in place.
C3_Witness ==
  \E t \in Threads :
    /\ IsUpdateCall(t) /\ pc[t] = "done"
    /\ IsSome(update[t]) /\ RevokeableOutputDataFromUpdate(update[t]) = <<>>
    /\ Stalled(funding_txo[t])

\* C4: justice_tx for a funding_txo without a map, or for a commitment_txid
\* its map does not hold, returns None and does not fault.
C4_UnknownIsNone ==
  \A t \in Threads :
    (/\ op[t] = "justice_tx"
     /\ pc[t] \in {"done", "fault"}
     /\ \/ ~HasState(funding_txo[t])
        \/ commitment_txid[t] \notin DOMAIN watchtower_state[funding_txo[t]])
    => (pc[t] = "done" /\ ret_tx[t] = None)

\* The entries of f's record for commitment_txid x.
RecordedAt(f, x) == {i \in 1 .. Len(recorded[f]) : recorded[f][i].commitment_txid = x}
Last(S) == CHOOSE i \in S : \A j \in S : j <= i
\* tx is the signed justice transaction of descriptor d, for some weight.
IsJusticeTxOf(tx, d) ==
  /\ tx.input = <<d.commitment_txid, d.output_idx>>
  /\ tx.witness = d.commitment_number
  /\ \E w \in Weights : tx.output0 = WrappingSub(U64(d.value), U64(Fee(w)))

\* C5: on a created channel f, justice_tx(f, x) returns the signed justice
\* transaction of the descriptor of x exactly when one was signed by a run
\* of the loop on f, and None while none was (x still waits in the queue,
\* or was never seen); it does not fault.
C5_LookupOfCreated ==
  \A t \in Threads :
    op[t] = "justice_tx" =>
      LET f == funding_txo[t]
          x == commitment_txid[t]
      IN /\ pc[t] = "fault" => ~HasState(f)
         /\ pc[t] = "done" =>
              IF RecordedAt(f, x) = {}
              THEN ret_tx[t] = None
              ELSE /\ IsSome(ret_tx[t])
                   /\ IsJusticeTxOf(Unwrap(ret_tx[t]), recorded[f][Last(RecordedAt(f, x))])

\* Scenario B: the only descriptor was signed, the queue is empty and
\* justice_tx returned its transaction.
C5_Witness ==
  \E t \in Threads :
    /\ op[t] = "justice_tx" /\ pc[t] = "done" /\ IsSome(ret_tx[t])
    /\ Len(recorded[funding_txo[t]]) = 1
    /\ Queue(funding_txo[t]) = <<>>

\* C6: persist_new_channel for a funding_txo with neither a queue nor a map
\* makes both, empty; for one that has either it ends in the fault; no
\* funding_txo is created by two calls that return.
C6_Step ==
  \A t \in Threads :
    LET f == funding_txo[t] IN
    (op[t] = "persist_new_channel" /\ pc'[t] # pc[t]) =>
      /\ pc[t] = "pnc_queue" =>
           IF HasQueue(f)
           THEN pc'[t] = "fault"
           ELSE /\ pc'[t] = "pnc_state"
                /\ MapGet(revokeable_output_data', f) = Some(<<>>)
      /\ pc[t] = "pnc_state" =>
           IF HasState(f)
           THEN pc'[t] = "fault"
           ELSE /\ pc'[t] = "pnc_persist"
                /\ MapGet(revokeable_output_data', f) = Some(<<>>)
                /\ MapGet(watchtower_state', f) = Some(EmptyMap)
C6_CreatedOnce ==
  /\ [](\A f \in Channels : created[f] <= 1)
  /\ [][C6_Step]_vars

\* A funding_txo was created by a call that returned, and a second
\* persist_new_channel for it ended in the fault.
C6_Witness ==
  \E t \in Threads :
    /\ op[t] = "persist_new_channel" /\ pc[t] = "fault"
    /\ created[funding_txo[t]] = 1

\* C7: every update_persisted_channel call on a created channel that has
\* ended, however it ended, has handed the update to the FilesystemPersister
\* exactly once, and only after it was done with the queue and the store (no
\* mutex held).
C7_ForwardsExactlyOnce ==
  \A t \in Threads :
    (IsUpdateCall(t) /\ HasQueue(funding_txo[t]) /\ HasState(funding_txo[t])) =>
      /\ pc[t] \in {"done", "fault"} => Len(storage_calls[t]) = 1
      /\ Len(storage_calls[t]) > 0 => (pc[t] = "done" /\ rod_lock # t /\ wt_lock # t)

\* C8: update_persisted_channel returns the status the FilesystemPersister
\* gave it, whatever the loop did, and asks the FilesystemPersister once.
C8_StatusVerbatim ==
  \A t \in Threads :
    (IsUpdateCall(t) /\ pc[t] = "done") =>
      /\ Len(storage_calls[t]) = 1
      /\ ret_status[t] = storage_calls[t][1]

\* A call left the head of its queue unsigned and returned Completed.
C8_Witness ==
  \E t \in Threads :
    /\ IsUpdateCall(t) /\ pc[t] = "done" /\ IsSome(update[t])
    /\ Stalled(funding_txo[t])
    /\ ret_status[t] = "Completed"

\* C9: the transaction handed to sign_justice_tx has, as the value of
\* output 0, the descriptor's value less floor(253 * (W + 155) / 1000).
C9_FeeArithmetic ==
  \A t \in Threads :
    pc[t] = "upc_sign" =>
      LET d == Front(Queue(funding_txo[t]))
          fee == (253 * (weight[t] + 155)) \div 1000
      IN /\ d.value >= fee
         /\ Unwrap(justice_tx[t]).output0 = U64(d.value - fee)

\* C10: a call that wants the queue of one created funding_txo is not kept
\* waiting by a call that is inside its loop for another funding_txo: it
\* can take its step of lines 100-102.
C10_NoCrossChannelBlocking ==
  \A t, u \in Threads :
    (/\ t # u
     /\ pc[t] = "upc_lock"
     /\ InLoopBody(u)
     /\ funding_txo[t] # funding_txo[u]
     /\ HasQueue(funding_txo[t]) /\ HasState(funding_txo[t]))
    => ENABLED UpcLock(t)

\* t is between line 102 and the end of the loop: it works on a queue.
InLoop(t) == pc[t] \in {"upc_front", "upc_sign", "upc_insert", "upc_assert"}
IsPrefix(p, q) == Len(p) <= Len(q) /\ SubSeq(q, 1, Len(p)) = p
IsSuffix(p, q) == Len(p) <= Len(q) /\ SubSeq(q, Len(q) - Len(p) + 1, Len(q)) = p

\* In every state: one thread at most is in the loop, and it holds the
\* mutex; what was recorded for a channel is, in order, the first
\* descriptors that were enqueued, and the queue holds, in order, the last
\* ones; a second insertion for a pair exists only at the assert on dup.
C11_Exclusive ==
  /\ \A t \in Threads : InLoop(t) => rod_lock = t
  /\ \A t, u \in Threads : (InLoop(t) /\ InLoop(u)) => t = u
  /\ \A f \in Channels :
       /\ IsPrefix(recorded[f], enqueued[f])
       /\ HasQueue(f) => IsSuffix(Queue(f), enqueued[f])
       /\ \A x \in Txids :
            RecordedCount(f, x) > 1 =>
              \E t \in Threads :
                /\ IsUpdateCall(t) /\ funding_txo[t] = f /\ IsSome(dup[t])
                /\ pc[t] \in {"upc_assert", "fault"}
\* A step of update_persisted_channel calls that changes a channel's queue
\* is taken by the holder of the mutex and either appends at the back or
\* removes the front, the descriptor recorded last.
C11_QueueStep ==
  \A f \in Channels :
    (/\ HasQueue(f)
     /\ f \in DOMAIN revokeable_output_data'
     /\ revokeable_output_data'[f] # Queue(f)
     /\ \A t \in Threads : op[t] = "persist_new_channel" => pc'[t] = pc[t])
    => /\ \E t \in Threads :
            /\ IsUpdateCall(t) /\ funding_txo[t] = f /\ pc'[t] # pc[t]
            /\ rod_lock = t \/ rod_lock' = t
       /\ \/ IsPrefix(Queue(f), revokeable_output_data'[f])
          \/ /\ Queue(f) # <<>>
             /\ revokeable_output_data'[f] = Tail(Queue(f))
             /\ recorded[f] # <<>>
             /\ recorded[f][Len(recorded[f])] = Front(Queue(f))

\* C11: update_persisted_channel calls of several threads for one
\* funding_txo take turns: one loop at a time works on the queues, under
\* every interleaving a queue only grows at the back and loses its front
\* once that was recorded, descriptors are recorded in the order they were
\* enqueued, none twice and none passed over, and no pair (funding_txo,
\* commitment_txid) is recorded twice by calls that go on.
C11_Serialized == []C11_Exclusive /\ [][C11_QueueStep]_vars

\* Two calls for one channel ran at the same time: the one that came with
\* the later commitment took the mutex first, the other is in its loop;
\* both descriptors are enqueued.
C11_Witness ==
  \E t, u \in Threads : \E f \in Channels :
    /\ t # u
    /\ IsUpdateCall(t) /\ IsUpdateCall(u)
    /\ funding_txo[t] = f /\ funding_txo[u] = f
    /\ pc[t] = "done" /\ InLoopBody(u)
    /\ Len(enqueued[f]) = 2
    /\ IsSome(update[t]) /\ IsSome(update[u])
    /\ RevokeableOutputDataFromUpdate(update[t]) = <<enqueued[f][1]>>
    /\ RevokeableOutputDataFromUpdate(update[u]) = <<enqueued[f][2]>>
    /\ enqueued[f][1].commitment_number > enqueued[f][2].commitment_number

\* C12: when the loop of a call that came with an update has ended
\* normally, the channel's queue is empty or its front cannot be signed,
\* every descriptor recorded can be signed, and the recorded descriptors
\* followed by the queue are the enqueued ones, in order: the loop resolved
\* the signable descriptors ahead of the first one that is not, and only
\* those.
C12_MaximalPrefix ==
  \A t \in Threads :
    (IsUpdateCall(t) /\ IsSome(update[t]) /\ pc[t] = "upc_persist") =>
      LET f == funding_txo[t] IN
      /\ Queue(f) = <<>> \/ ~CanSign(f, Front(Queue(f)).commitment_number)
      /\ \A i \in 1 .. Len(recorded[f]) : CanSign(f, recorded[f][i].commitment_number)
      /\ recorded[f] \o Queue(f) = enqueued[f]

\* Scenario C: commitments 1 and 2 are in the queue, 1 is revoked and 2 is
\* not; the loop has recorded 1 and left 2 at the front.
C12_Witness ==
  \E t \in Threads :
    LET f == funding_txo[t] IN
    /\ IsUpdateCall(t) /\ IsSome(update[t]) /\ pc[t] = "upc_persist"
    /\ Len(recorded[f]) = 1 /\ recorded[f][1].commitment_number = 1
    /\ Len(Queue(f)) = 1 /\ Front(Queue(f)).commitment_number = 2
    /\ revoked[f] = {1}

\* A call on f stands between the insert of line 135 and the pop of line
\* 137 (or has faulted at the assert between them): the front of f's queue
\* is in the store already.
FrontRecorded(f) ==
  \E t \in Threads :
    /\ IsUpdateCall(t) /\ funding_txo[t] = f
    /\ pc[t] = "upc_assert" \/ (pc[t] = "fault" /\ IsSome(dup[t]))
\* The descriptors of f's queue that are not in the store.
Pending(f) == IF FrontRecorded(f) THEN Tail(Queue(f)) ELSE Queue(f)

\* C13: in every state, for every channel that has a queue, the descriptors
\* recorded in the store, in recording order, followed by the descriptors
\* still waiting in the queue are the descriptors that were enqueued for
\* the channel, in the order they came: none is lost.
C13_NoneLost ==
  \A f \in Channels :
    HasQueue(f) => recorded[f] \o Pending(f) = enqueued[f]

\* A pair that maps to a justice transaction in the store before a step
\* maps to the same transaction after it.
C14_KeptByStep ==
  \A f \in Channels :
    HasState(f) =>
      \A x \in DOMAIN watchtower_state[f] :
        /\ f \in DOMAIN watchtower_state'
        /\ x \in DOMAIN watchtower_state'[f]
        /\ watchtower_state'[f][x] = watchtower_state[f][x]

\* C14: once a pair (funding_txo, commitment_txid) maps to a justice
\* transaction in the store, it maps to that transaction in every later
\* state, whatever is called and also when a call ends in the fault.
C14_Irreversible == [][C14_KeptByStep]_vars

\* C15: an update_persisted_channel call on a created channel, with or
\* without an update, has run the loop from the front of the channel's
\* queue when it gets to line 143: no descriptor that can be signed is at
\* the front then (it was recorded).
C15_HeadRecovered ==
  \A t \in Threads :
    LET f == funding_txo[t] IN
    (IsUpdateCall(t) /\ pc[t] = "upc_persist" /\ HasQueue(f) /\ HasState(f)) =>
      \/ Queue(f) = <<>>
      \/ ~CanSign(f, Front(Queue(f)).commitment_number)

\* tx is the justice transaction of descriptor d with a fee above d's
\* value taken off: its output value is (value - fee) mod 2^64.
IsWrapped(tx, d) ==
  /\ tx.input = <<d.commitment_txid, d.output_idx>>
  /\ \E w \in Weights :
       /\ d.value < Fee(w)
       /\ tx.output0 = WrappingSub(U64(d.value), U64(Fee(w)))

\* C16: no justice transaction whose output value is the wrapped
\* difference is signed (held by a call past sign_justice_tx) or recorded
\* in the store.
C16_NeverWraps ==
  /\ \A t \in Threads :
       pc[t] \in {"upc_insert", "upc_assert"} =>
         ~IsWrapped(Unwrap(justice_tx[t]), Front(Queue(funding_txo[t])))
  /\ \A f \in Channels : \A i \in 1 .. Len(recorded[f]) :
       LET d == recorded[f][i] IN
       (HasState(f) /\ d.commitment_txid \in DOMAIN watchtower_state[f]) =>
         ~(/\ watchtower_state[f][d.commitment_txid].witness = d.commitment_number
           /\ IsWrapped(watchtower_state[f][d.commitment_txid], d))

\* Thread t has looked for the map of justice transactions of its
\* funding_txo: a justice_tx call at line 49, an update_persisted_channel
\* call at line 134, a signed transaction in hand.
LookedForState(t) ==
  \/ op[t] = "justice_tx" /\ pc[t] \in {"done", "fault"}
  \/ /\ IsUpdateCall(t) /\ pc[t] \in {"upc_assert", "fault"}
     /\ IsSome(justice_tx[t]) /\ Unwrap(justice_tx[t]).witness # 0

\* C17: a call for a funding_txo that has its queue never finds the map of
\* justice transactions missing: no update_persisted_channel or justice_tx
\* call that ran beside persist_new_channel ends in the fault of the
\* missing map (lines 134, 49) with the queue in place.
C17_CreationAtomic ==
  \A t \in Threads :
    (LookedForState(t) /\ pc[t] = "fault" /\ HasQueue(funding_txo[t]))
    => HasState(funding_txo[t])

\* A step in which a persist_new_channel call ends in the fault leaves
\* the queue and the map of its funding_txo as they were.
C18_FaultStep ==
  \A t \in Threads :
    LET f == funding_txo[t] IN
    (/\ op[t] = "persist_new_channel"
     /\ HasQueue(f) /\ HasState(f)
     /\ pc[t] # "fault" /\ pc'[t] = "fault")
    => /\ MapGet(revokeable_output_data', f) = MapGet(revokeable_output_data, f)
       /\ MapGet(watchtower_state', f) = MapGet(watchtower_state, f)

\* C18: persist_new_channel for a funding_txo that has its queue and its
\* map ends in the fault and leaves both as they were before the call.
C18_RejectedUnchanged == [][C18_FaultStep]_vars

\* Without a fault, a call under way can take its next step, or it waits
\* for the mutex of the queues and the thread that holds it can take its
\* next step: no thread waits for a thread that waits.
C19_NoDeadlock ==
  \A t \in Threads :
    (NoFault /\ pc[t] \notin {"idle", "done"}) =>
      \/ ENABLED Running(t)
      \/ /\ rod_lock \in Threads \ {t}
         /\ ENABLED Running(rod_lock)
         /\ wt_lock = 0

\* The steps of the loop: the queue never grows, the head of the loop is
\* reached again only after a pop, which shortens the queue by one, a
\* failed signing ends the loop, and the mutex is free when the loop is
\* left.
C19_LoopStep ==
  \A t \in Threads :
    LET f == funding_txo[t] IN
    (InLoop(t) /\ pc'[t] # pc[t]) =>
      /\ f \in DOMAIN revokeable_output_data'
      /\ Len(revokeable_output_data'[f]) <= Len(Queue(f))
      /\ pc'[t] = "upc_front" =>
           /\ pc[t] = "upc_assert"
           /\ Len(revokeable_output_data'[f]) = Len(Queue(f)) - 1
      /\ (pc[t] = "upc_sign" /\ ~CanSign(f, Front(Queue(f)).commitment_number)) =>
           pc'[t] = "upc_persist"
      /\ pc'[t] = "upc_persist" => rod_lock' = 0

\* Every call under way returns, or the program faults.
C19_Returns ==
  \A t \in Threads :
    (pc[t] \notin {"idle", "done"}) ~> (pc[t] = "done" \/ ~NoFault)

\* C19: interleaved persist_new_channel, update_persisted_channel and
\* justice_tx calls never wait for each other in a cycle, the loop ends
\* after at most as many signings as the queue is long and one failure,
\* and with a monitor and a FilesystemPersister that return and a fair
\* mutex every call returns or faults.
C19_Terminates == []C19_NoDeadlock /\ [][C19_LoopStep]_vars /\ C19_Returns

\* A call waits at line 100 for the mutex that a call in its loop holds.
C19_Witness ==
  \E t, u \in Threads :
    /\ pc[t] = "upc_lock" /\ InLoopBody(u) /\ rod_lock = u
    /\ ~ENABLED Running(t)

\* What a step of a call leaves alone: the queue and the map of every
\* funding_txo but the call's own; both maps as a whole when the call is
\* justice_tx or update_persisted_channel without an update, and when a
\* call begins or is given back.
C20_FrameStep ==
  /\ pc' = pc => UNCHANGED <<revokeable_output_data, watchtower_state>>
  /\ \A t \in Threads :
       pc'[t] # pc[t] =>
         /\ \A g \in Channels \ {funding_txo[t]} :
              /\ MapGet(revokeable_output_data', g) = MapGet(revokeable_output_data, g)
              /\ MapGet(watchtower_state', g) = MapGet(watchtower_state, g)
         /\ (\/ pc[t] \in {"idle", "done"}
             \/ op[t] = "justice_tx"
             \/ IsUpdateCall(t) /\ update[t] = None)
            => UNCHANGED <<revokeable_output_data, watchtower_state>>

\* C20: persist_new_channel and update_persisted_channel for one
\* funding_txo leave the queue and the map of every other funding_txo
\* unchanged; update_persisted_channel with update = None and justice_tx
\* change neither revokeable_output_data nor watchtower_state.
C20_Frame == [][C20_FrameStep]_vars

\* A call for f2 recorded a justice transaction and returned while a
\* descriptor waits in f1's queue.
C20_Witness ==
  \E t \in Threads :
    /\ IsUpdateCall(t) /\ pc[t] = "done" /\ funding_txo[t] = "f2"
    /\ Len(recorded["f2"]) = 1
    /\ HasQueue("f1") /\ Len(Queue("f1")) = 1

====
